---- MODULE Spec2Model ----
(***************************************************************************)
(* Entities and models of pycoalaip (coalaip/entities.py,                  *)
(* coalaip/models.py): the persistence life cycle of an Entity (from_data, *)
(* from_persist_id, create, load, data, status, transfer, serialisation)   *)
(* and the lazy loading of a LazyLoadableModel, against a persistence      *)
(* plugin whose calls are logged.                                          *)
(*                                                                         *)
(* Python values are encoded as follows.  A dict is a function from key    *)
(* strings to value strings (the empty dict is << >>).  An optional value  *)
(* that is a dict or an object is a sequence of length 0 (None) or 1.      *)
(* None among strings is the atom None; an argument that a call does not   *)
(* pass is the atom Missing.  A raised exception is a result whose kind is *)
(* "raise" and whose err names the exception class.                        *)
(***************************************************************************)
EXTENDS Naturals, Sequences, FiniteSets, TLC

VARIABLES
    entity,     \* <<>> or <<e>>: the Entity under test, e = [cls, model, plugin, persist_id]
    heap,       \* the model objects allocated so far; an entity's model indexes it
    store,      \* the backend behind the plugin: persist id -> raw persisted dict
    saves,      \* log of plugin.save calls: [data, user]
    loads,      \* log of plugin.load calls: persist ids
    transfers,  \* log of plugin.transfer calls: [persist_id, payload, from_user, to_user, result]
    statuses,   \* log of plugin.get_status calls: persist ids
    created,    \* ids returned to the caller by successful create calls on the entity
    assignment, \* <<>> or <<ra>>: the RightsAssignment built by the last Right.transfer
    ret,        \* the last call and its outcome
    steps,      \* number of calls made so far
    writes,     \* number of writes other clients made to the backend
    threads     \* the calls that threads sharing the entity are in the middle of

vars == <<entity, heap, store, saves, loads, transfers, statuses, created,
          assignment, ret, steps, writes, threads>>

(***************************************************************************)
(* Bounds of the model.                                                    *)
(***************************************************************************)
MaxSteps == 3
MaxWrites == 1

(***************************************************************************)
(* Atoms.                                                                  *)
(***************************************************************************)
None == "None"
Missing == "Missing"
PyTrue == "True"

COALAIP == "<coalaip>"

Classes == {"Work", "Manifestation", "Right", "Copyright", "RightsAssignment"}
Plugins == {"P"}
Users == {"u1", "u2"}
Ids == {"id1", "id2"}
Formats == {"jsonld", "json", "ipld", "xml"}
\* rights_assignment_format as callers of transfer pass it, or leave it out
TransferFormats == {Missing, "json", "ipld", "xml"}
TransferResults == {"tx1"}
SaveErrors == {"BackendError"}

EmptyDict == << >>

\* The dicts callers pass as data.
InputData ==
    { EmptyDict,
      ("name" :> "Ayy") @@ ("@type" :> "Other") @@ ("type" :> "Other")
          @@ ("@context" :> "ctx") @@ ("@id" :> "x")
          @@ ("isManifestation" :> "False"),
      [invalid |-> "x"] }

\* The dicts callers pass as rights_assignment_data, and no dict at all.
RightsAssignmentData ==
    { <<>>, <<EmptyDict>>, <<("name" :> "Ayy") @@ ("@type" :> "Other")>> }

\* The raw documents a backend may hold under an id.
PersistedData ==
    { ("name" :> "Bee") @@ ("@context" :> COALAIP) @@ ("invalid" :> "x"),
      ("name" :> "Ayy") @@ ("@type" :> "Right") @@ ("@context" :> COALAIP),
      ("name" :> "Cee") @@ ("@type" :> "") }

(***************************************************************************)
(* Python semantics used by the code.                                      *)
(***************************************************************************)
\* truth value of a str-or-None
TruthyStr(s) == s # None /\ s # Missing /\ s # ""

\* truth value of an optional dict: None and {} are false
TruthyOptDict(od) == od # <<>> /\ DOMAIN od[1] # {}

\* dict without the keys ks
Without(d, ks) == [k \in DOMAIN d \ ks |-> d[k]]

\* copy(d); d[k] = v
SetItem(d, k, v) == [x \in DOMAIN d \cup {k} |-> IF x = k THEN v ELSE d[x]]

\* Outcome of a call: a returned value, or a raised exception (arg is the
\* value the exception carries, None when it carries none).
Return(v) == [kind |-> "return", err |-> None, arg |-> None, val |-> <<v>>]
Raise(e) == [kind |-> "raise", err |-> e, arg |-> None, val |-> <<>>]
RaiseWith(e, a) == [kind |-> "raise", err |-> e, arg |-> a, val |-> <<>>]

(***************************************************************************)
(* Collaborators that live outside entities.py and models.py.              *)
(***************************************************************************)
\* extend_dict(x, y): a copy of x updated with y
extend_dict(x, y) ==
    [k \in DOMAIN x \cup DOMAIN y |-> IF k \in DOMAIN y THEN y[k] ELSE x[k]]

\* A validator is a predicate on data.  attr.validators.instance_of(dict)
\* accepts every dict; the entity validators reject the data marked invalid.
Accepts(validator, data) ==
    validator = "instance_of_dict" \/ "invalid" \notin DOMAIN data

\* _data_format_resolver: the dispatch key of a format, or UnknownFormat
DataFormat == {"jsonld", "json", "ipld"}

data_format_resolver(data_format) ==
    IF data_format \in DataFormat THEN Return(data_format)
    ELSE Raise("UnknownFormat")

\* _extract_ld_data: the plain data and the linked-data fields of a raw
\* dict, None for a field the dict does not carry
DictGet(d, k) == IF k \in DOMAIN d THEN d[k] ELSE None

extract_ld_data(data, data_format) ==
    IF data_format = "jsonld"
    THEN [data |-> Without(data, {"@type", "@context", "@id"}),
          ld_type |-> DictGet(data, "@type"),
          ld_context |-> DictGet(data, "@context"),
          ld_id |-> DictGet(data, "@id")]
    ELSE [data |-> Without(data, {"type"}),
          ld_type |-> DictGet(data, "type"),
          ld_context |-> None,
          ld_id |-> None]

\* The plugin reading the backend: load and get_status of an id
plugin_load(st, persist_id) ==
    IF persist_id \in DOMAIN st THEN Return(st[persist_id])
    ELSE Raise("EntityNotFoundError")

plugin_get_status(st, persist_id) ==
    IF persist_id \in DOMAIN st THEN Return("persisted")
    ELSE Raise("EntityNotFoundError")

(***************************************************************************)
(* models.py                                                               *)
(***************************************************************************)
get_default_ld_context == "[<coalaip>, <schema>]"

\* the validator a model uses when the caller passes none
default_validator(validator) ==
    IF validator = Missing THEN "instance_of_dict" ELSE validator

\* A result r of a call together with the model object after the call and
\* the plugin.load calls the call made
WithModel(r, model, fetched) ==
    [kind |-> r.kind, err |-> r.err, arg |-> r.arg, val |-> r.val,
     model |-> model, loads |-> fetched]

\* Model(data, ld_type, ld_context, validator): a frozen value
Model(data, ld_type, ld_context, validator) ==
    IF ld_type = Missing THEN Raise("TypeError")
    ELSE IF ~Accepts(default_validator(validator), data)
    THEN Raise("ModelDataError")
    ELSE Return([kind |-> "Model",
                 data |-> data,
                 ld_type |-> ld_type,
                 ld_context |-> IF ld_context = Missing
                                THEN get_default_ld_context
                                ELSE ld_context,
                 validator |-> default_validator(validator)])

\* The attributes of a LazyLoadableModel
LazyAttrs(ld_type, ld_context, validator, loaded_model) ==
    [kind |-> "LazyLoadableModel",
     ld_type |-> ld_type,
     ld_context |-> ld_context,
     validator |-> validator,
     loaded_model |-> loaded_model]

\* LazyLoadableModel.__init__, `if data:` branch: the Model built from data
\* becomes loaded_model
LazyLoadableModel_populate(ld_type, ld_context, validator, model) ==
    IF model.kind = "raise" THEN model
    ELSE Return(LazyAttrs(ld_type, ld_context, validator, model.val))

\* LazyLoadableModel.__init__ once the attributes are set
LazyLoadableModel_validated(ld_type, ld_context, validator, data) ==
    IF ld_type = Missing THEN Raise("TypeError")
    ELSE IF TruthyOptDict(data)
    THEN LazyLoadableModel_populate(
             ld_type, ld_context, validator,
             Model(data[1], ld_type, ld_context, validator))
    ELSE Return(LazyAttrs(ld_type, ld_context, validator, <<>>))

\* LazyLoadableModel.__init__; data is <<>> when no data is given
LazyLoadableModel(ld_type, ld_context, validator, data) ==
    LazyLoadableModel_validated(
        ld_type,
        IF TruthyStr(ld_context) THEN ld_context ELSE get_default_ld_context,
        default_validator(validator),
        data)

\* LazyLoadableModel.data
LazyLoadableModel_data(m) ==
    IF m.loaded_model = <<>> THEN Raise("ModelNotYetLoadedError")
    ELSE Return(m.loaded_model[1].data)

\* model.data for either kind of model
model_data(m) ==
    IF m.kind = "Model" THEN Return(m.data) ELSE LazyLoadableModel_data(m)

\* Mutant of LazyLoadableModel.load: loading resets the context
load_construct_ResetContext(m, fetched, loaded) ==
    IF loaded.kind = "raise" THEN WithModel(loaded, m, fetched)
    ELSE WithModel(Return(None),
                   [m EXCEPT !.loaded_model = loaded.val,
                             !.ld_context = get_default_ld_context],
                   fetched)

\* LazyLoadableModel.load: the Model built from the fetched data becomes
\* loaded_model
load_construct(m, fetched, loaded) ==
    IF loaded.kind = "raise" THEN WithModel(loaded, m, fetched)
    ELSE WithModel(Return(None), [m EXCEPT !.loaded_model = loaded.val], fetched)

\* LazyLoadableModel.load: the sanity check of the loaded type and context
load_check(m, fetched, x) ==
    IF TruthyStr(x.ld_type) /\ x.ld_type # m.ld_type
    THEN WithModel(Raise("ModelDataError"), m, fetched)
    ELSE IF TruthyStr(x.ld_context) /\ x.ld_context # m.ld_context
    THEN WithModel(Raise("ModelDataError"), m, fetched)
    ELSE load_construct(m, fetched,
                        Model(x.data, m.ld_type, m.ld_context, m.validator))

\* LazyLoadableModel.load after plugin.load(persist_id)
load_fetched(m, fetched, persist_data) ==
    IF persist_data.kind = "raise" THEN WithModel(persist_data, m, fetched)
    ELSE load_check(m, fetched, extract_ld_data(persist_data.val[1], "jsonld"))

\* Mutant of LazyLoadableModel.load: a loaded model is fetched again
LazyLoadableModel_load_Refetch(m, args, st) ==
    IF args.persist_id = Missing \/ args.plugin = Missing
    THEN WithModel(Raise("TypeError"), m, <<>>)
    ELSE load_fetched(m, <<args.persist_id>>, plugin_load(st, args.persist_id))

\* LazyLoadableModel.load(persist_id, *, plugin).  args are the arguments
\* the call site passes; st is the backend the plugin reads.  The result
\* carries the model after the call and the plugin.load calls made.
LazyLoadableModel_load(m, args, st) ==
    IF args.persist_id = Missing \/ args.plugin = Missing
    THEN WithModel(Raise("TypeError"), m, <<>>)
    ELSE IF m.loaded_model # <<>>
    THEN WithModel(Return(None), m, <<>>)
    ELSE load_fetched(m, <<args.persist_id>>, plugin_load(st, args.persist_id))

\* _model_factory(*, data, model_cls=Model, **kwargs); kw.data is <<>> when
\* the caller passes no data, and data has no default
model_factory(kw) ==
    IF kw.data = <<>> THEN Raise("TypeError")
    ELSE IF kw.model_cls = "LazyLoadableModel"
    THEN LazyLoadableModel(kw.ld_type, kw.ld_context, kw.validator, kw.data)
    ELSE Model(kw.data[1], kw.ld_type, kw.ld_context, kw.validator)

\* a keyword argument, or its default when the caller does not pass it
default(value, dflt) == IF value = Missing THEN dflt ELSE value

\* Mutant of work_model_factory: a given ld_type is kept
work_model_factory_Unforced(kw) ==
    model_factory([kw EXCEPT !.validator = "is_work_model",
                             !.ld_type = default(kw.ld_type, "CreativeWork")])

work_model_factory(kw) ==
    model_factory([kw EXCEPT !.validator = "is_work_model",
                             !.ld_type = "CreativeWork"])

manifestation_model_factory(kw) ==
    IF kw.data = <<>> THEN Raise("TypeError")
    ELSE model_factory(
           [kw EXCEPT !.data = <<extend_dict([isManifestation |-> PyTrue], kw.data[1])>>,
                      !.validator = "is_manifestation_model",
                      !.ld_type = default(kw.ld_type, "CreativeWork")])

right_model_factory(kw) ==
    model_factory([kw EXCEPT !.validator = "is_right_model",
                             !.ld_type = default(kw.ld_type, "Right"),
                             !.ld_context = default(kw.ld_context, COALAIP)])

copyright_model_factory(kw) ==
    model_factory([kw EXCEPT !.validator = "is_copyright_model",
                             !.ld_type = "Copyright",
                             !.ld_context = default(kw.ld_context, COALAIP)])

\* Mutant of rights_assignment_model_factory: a given ld_type is kept
rights_assignment_model_factory_Unforced(kw) ==
    model_factory([kw EXCEPT !.ld_type = default(kw.ld_type, "RightsTransferAction"),
                             !.ld_context = default(kw.ld_context, COALAIP)])

rights_assignment_model_factory(kw) ==
    model_factory([kw EXCEPT !.ld_type = "RightsTransferAction",
                             !.ld_context = default(kw.ld_context, COALAIP)])

(***************************************************************************)
(* entities.py                                                             *)
(***************************************************************************)
\* cls.generate_model(**kw) of each Entity subclass
generate_model(cls, kw) ==
    CASE cls = "Work" -> work_model_factory(kw)
      [] cls = "Manifestation" -> manifestation_model_factory(kw)
      [] cls = "Right" -> right_model_factory(kw)
      [] cls = "Copyright" -> copyright_model_factory(kw)
      [] cls = "RightsAssignment" -> rights_assignment_model_factory(kw)

\* cls(model, plugin): persist_id is not initable and starts as None
Entity(cls, model, plugin) ==
    [cls |-> cls, model |-> model, plugin |-> plugin, persist_id |-> None]

\* get_model_kwargs of from_data: the extracted fields that are not None,
\* without ld_id
model_kwargs(x) ==
    [data |-> <<x.data>>,
     ld_type |-> IF x.ld_type = None THEN Missing ELSE x.ld_type,
     ld_context |-> IF x.ld_context = None THEN Missing ELSE x.ld_context,
     model_cls |-> Missing,
     validator |-> Missing]

get_model_kwargs(data, data_format) ==
    model_kwargs(extract_ld_data(data, data_format))

\* Entity.from_data once the format is resolved to f
from_data_resolved(cls, data, f) ==
    IF f.kind = "raise" THEN f
    ELSE IF f.val[1] = "ipld" THEN Raise("NotImplementedError")
    ELSE generate_model(cls, get_model_kwargs(data, f.val[1]))

\* Entity.from_data(data, data_format, plugin): the model of the new entity
Entity_from_data(cls, data, data_format) ==
    from_data_resolved(cls, data, data_format_resolver(data_format))

\* The arguments Entity.load passes to the model's load
EntityLoadArgs(e) == [persist_id |-> Missing, plugin |-> Missing]

\* Entity.load() on entity e whose model object is m
Entity_load(e, m, st) ==
    IF m.kind = "LazyLoadableModel"
    THEN IF e.persist_id = None
         THEN WithModel(Raise("EntityNotYetPersistedError"), m, <<>>)
         ELSE LazyLoadableModel_load(m, EntityLoadArgs(e), st)
    ELSE WithModel(Return(None), m, <<>>)

\* Entity.data, the except branch after self.load()
data_after_load(l) ==
    IF l.kind = "raise" THEN l
    ELSE WithModel(model_data(l.model), l.model, l.loads)

\* Entity.data, given the outcome of the first self.model.data
data_first(e, m, st, first) ==
    IF first.kind = "raise" /\ first.err = "ModelNotYetLoadedError"
    THEN data_after_load(Entity_load(e, m, st))
    ELSE WithModel(first, m, <<>>)

\* Entity.data
Entity_data(e, m, st) == data_first(e, m, st, model_data(m))

\* Mutant of Entity.to_json: the context is added as well
to_json_of_WithContext(d) ==
    IF d.kind = "raise" THEN d
    ELSE [d EXCEPT !.val =
            <<SetItem(SetItem(d.val[1], "type", d.model.ld_type),
                      "@context", d.model.ld_context)>>]

\* Entity.to_json, given the outcome d of self.data
to_json_of(d) ==
    IF d.kind = "raise" THEN d
    ELSE [d EXCEPT !.val = <<SetItem(d.val[1], "type", d.model.ld_type)>>]

\* Entity.to_json
Entity_to_json(e, m, st) == to_json_of(Entity_data(e, m, st))

\* Mutant of Entity.to_jsonld: no @id is set
to_jsonld_of_NoId(d) ==
    IF d.kind = "raise" THEN d
    ELSE [d EXCEPT !.val =
            <<SetItem(SetItem(d.val[1], "@context", d.model.ld_context),
                      "@type", d.model.ld_type)>>]

\* Entity.to_jsonld, given the outcome d of self.data
to_jsonld_of(d) ==
    IF d.kind = "raise" THEN d
    ELSE [d EXCEPT !.val =
            <<SetItem(SetItem(SetItem(d.val[1], "@context", d.model.ld_context),
                              "@type", d.model.ld_type),
                      "@id", "")>>]

\* model m holding data in place of the data it held
WithData(m, data) ==
    IF m.kind = "Model" THEN [m EXCEPT !.data = data]
    ELSE [m EXCEPT !.loaded_model = <<[m.loaded_model[1] EXCEPT !.data = data]>>]

\* an output that is the model's own dict, not a copy of it
InPlace(d) ==
    IF d.kind = "raise" THEN d
    ELSE [d EXCEPT !.model = WithData(d.model, d.val[1])]

\* Mutant of Entity.to_jsonld: the keys are set on self.data itself
Entity_to_jsonld_InPlace(e, m, st) == InPlace(to_jsonld_of(Entity_data(e, m, st)))

\* Entity.to_jsonld
Entity_to_jsonld(e, m, st) == to_jsonld_of(Entity_data(e, m, st))

\* Mutant of Entity.to_ipld: implemented as to_json is
Entity_to_ipld_AsJson(e, m, st) == Entity_to_json(e, m, st)

\* Entity.to_ipld
Entity_to_ipld(e, m, st) == WithModel(Raise("NotImplementedError"), m, <<>>)

\* Mutant of Entity._to_format: the json and jsonld handlers are swapped
to_format_resolved_Swapped(e, m, st, f) ==
    IF f.kind = "raise" THEN WithModel(f, m, <<>>)
    ELSE CASE f.val[1] = "jsonld" -> Entity_to_json(e, m, st)
           [] f.val[1] = "json" -> Entity_to_jsonld(e, m, st)
           [] f.val[1] = "ipld" -> Entity_to_ipld(e, m, st)

\* Entity._to_format once the format is resolved to f
to_format_resolved(e, m, st, f) ==
    IF f.kind = "raise" THEN WithModel(f, m, <<>>)
    ELSE CASE f.val[1] = "jsonld" -> Entity_to_jsonld(e, m, st)
           [] f.val[1] = "json" -> Entity_to_json(e, m, st)
           [] f.val[1] = "ipld" -> Entity_to_ipld(e, m, st)

\* Entity._to_format
Entity_to_format(e, m, st, data_format) ==
    to_format_resolved(e, m, st, data_format_resolver(data_format))

\* Outcome of from_persist_id: the entity and its model object if it returns
Constructed(r, e, model, fetched) ==
    [kind |-> r.kind, err |-> r.err, arg |-> r.arg, val |-> <<>>,
     entity |-> e, model |-> model, loads |-> fetched]

\* Entity.from_persist_id with force_load, after entity.load()
from_persist_id_loaded(e, l) ==
    IF l.kind = "raise" THEN Constructed(l, <<>>, <<>>, l.loads)
    ELSE Constructed(Return(None), <<e>>, <<l.model>>, l.loads)

\* Entity.from_persist_id once the model is generated
from_persist_id_model(e, force_load, st, model) ==
    IF model.kind = "raise" THEN Constructed(model, <<>>, <<>>, <<>>)
    ELSE IF force_load
    THEN from_persist_id_loaded(e, Entity_load(e, model.val[1], st))
    ELSE Constructed(Return(None), <<e>>, model.val, <<>>)

\* Entity.from_persist_id(persist_id, force_load, plugin); ref is the
\* address the new model object gets
Entity_from_persist_id(cls, persist_id, force_load, plugin, ref, st) ==
    from_persist_id_model(
        [Entity(cls, ref, plugin) EXCEPT !.persist_id = persist_id],
        force_load, st,
        generate_model(cls, [data |-> <<>>,
                             ld_type |-> Missing,
                             ld_context |-> Missing,
                             model_cls |-> "LazyLoadableModel",
                             validator |-> Missing]))

\* A result r with the plugin.get_status calls made
WithStatuses(r, asked) ==
    [kind |-> r.kind, err |-> r.err, arg |-> r.arg, val |-> r.val,
     statuses |-> asked]

\* Mutant of Entity.status: the plugin is asked also without persist_id
Entity_status_Unchecked(e, st) ==
    WithStatuses(plugin_get_status(st, e.persist_id), <<e.persist_id>>)

\* Entity.status
Entity_status(e, st) ==
    IF e.persist_id = None THEN WithStatuses(Return(None), <<>>)
    ELSE WithStatuses(plugin_get_status(st, e.persist_id), <<e.persist_id>>)

\* Outcome of create: the entity's persist_id and model object after the
\* call, and the plugin.load and plugin.save calls made
Created(r, persist_id, model, fetched, saved) ==
    [kind |-> r.kind, err |-> r.err, arg |-> r.arg, val |-> r.val,
     persist_id |-> persist_id, model |-> model, loads |-> fetched,
     saves |-> saved]

\* Entity.create after plugin.save(entity_data, user=user)
create_saved(e, entity_data, call, save_result) ==
    IF save_result.kind = "raise"
    THEN Created(save_result, e.persist_id, entity_data.model,
                 entity_data.loads, call)
    ELSE Created(Return(save_result.val[1]), save_result.val[1],
                 entity_data.model, entity_data.loads, call)

\* Entity.create after self._to_format(data_format)
create_serialized(e, user, save_result, entity_data) ==
    IF entity_data.kind = "raise"
    THEN Created(entity_data, e.persist_id, entity_data.model,
                 entity_data.loads, <<>>)
    ELSE create_saved(e, entity_data,
                      <<[data |-> entity_data.val[1], user |-> user]>>,
                      save_result)

\* Mutant of Entity.create: the error does not carry the existing id
Entity_create_NoId(e, m, st, user, data_format, save_result) ==
    IF e.persist_id # None
    THEN Created(Raise("EntityPreviouslyCreatedError"), e.persist_id, m,
                 <<>>, <<>>)
    ELSE create_serialized(e, user, save_result,
                           Entity_to_format(e, m, st, data_format))

\* Mutant of Entity.create: no check that the entity was created before
Entity_create_Unguarded(e, m, st, user, data_format, save_result) ==
    create_serialized(e, user, save_result,
                      Entity_to_format(e, m, st, data_format))

\* Entity.create(user, data_format); save_result is what plugin.save does
\* if it is called
Entity_create(e, m, st, user, data_format, save_result) ==
    IF e.persist_id # None
    THEN Created(RaiseWith("EntityPreviouslyCreatedError", e.persist_id),
                 e.persist_id, m, <<>>, <<>>)
    ELSE create_serialized(e, user, save_result,
                           Entity_to_format(e, m, st, data_format))

\* Mutant of RightsAssignment.create: the override is missing
RightsAssignment_create_Inherited(e, m, st, user, data_format, save_result) ==
    create_serialized(e, user, save_result,
                      Entity_to_format(e, m, st, data_format))

\* RightsAssignment.create
RightsAssignment_create(e, m, st, user, data_format, save_result) ==
    Created(Raise("EntityError"), e.persist_id, m, <<>>, <<>>)

\* create as the entity's class defines it
create(e, m, st, user, data_format, save_result) ==
    IF e.cls = "RightsAssignment"
    THEN RightsAssignment_create(e, m, st, user, data_format, save_result)
    ELSE Entity_create(e, m, st, user, data_format, save_result)

\* Outcome of transfer: the plugin.transfer calls made, and the
\* RightsAssignment built with its model object, if any
Transferred(r, calls, ra, model) ==
    [kind |-> r.kind, err |-> r.err, arg |-> r.arg, val |-> r.val,
     transfers |-> calls, assignment |-> ra, model |-> model]

\* Mutant of TransferrableEntity.transfer: persist_id is not checked
TransferrableEntity_transfer_Unchecked(e, transfer_payload, from_user, to_user, transfer_result) ==
    Transferred(Return(transfer_result),
                <<[persist_id |-> e.persist_id,
                   payload |-> transfer_payload,
                   from_user |-> from_user,
                   to_user |-> to_user,
                   result |-> transfer_result]>>,
                <<>>, <<>>)

\* TransferrableEntity.transfer(transfer_payload, from_user, to_user);
\* transfer_result is what plugin.transfer returns if it is called
TransferrableEntity_transfer(e, transfer_payload, from_user, to_user, transfer_result) ==
    IF e.persist_id = None
    THEN Transferred(Raise("EntityNotYetPersistedError"), <<>>, <<>>, <<>>)
    ELSE Transferred(Return(transfer_result),
                     <<[persist_id |-> e.persist_id,
                        payload |-> transfer_payload,
                        from_user |-> from_user,
                        to_user |-> to_user,
                        result |-> transfer_result]>>,
                     <<>>, <<>>)

\* Right.transfer after rights_assignment._to_format(rights_assignment_format)
transfer_serialized(e, ra, from_user, to_user, transfer_result, p) ==
    IF p.kind = "raise" THEN Transferred(p, <<>>, <<ra>>, <<p.model>>)
    ELSE [TransferrableEntity_transfer(e, p.val, from_user, to_user,
                                       transfer_result)
            EXCEPT !.assignment = <<ra>>, !.model = <<p.model>>]

\* Right.transfer after RightsAssignment.from_data(rights_assignment_data)
transfer_assignment(e, ra, from_user, to_user, rights_assignment_format, st, transfer_result, model) ==
    IF model.kind = "raise" THEN Transferred(model, <<>>, <<>>, <<>>)
    ELSE transfer_serialized(
             e, ra, from_user, to_user, transfer_result,
             Entity_to_format(ra, model.val[1], st, rights_assignment_format))

\* Right.transfer(rights_assignment_data, from_user, to_user,
\* rights_assignment_format); ref is the address the RightsAssignment's
\* model gets if one is built
Right_transfer(e, rights_assignment_data, from_user, to_user, rights_assignment_format, ref, st, transfer_result) ==
    IF rights_assignment_data # <<>>
    THEN transfer_assignment(
             e, Entity("RightsAssignment", ref, e.plugin), from_user, to_user,
             default(rights_assignment_format, "jsonld"), st, transfer_result,
             Entity_from_data("RightsAssignment", rights_assignment_data[1],
                              "jsonld"))
    ELSE TransferrableEntity_transfer(e, <<>>, from_user, to_user,
                                      transfer_result)

(***************************************************************************)
(* The state machine: one Entity under test, driven by its callers, and    *)
(* the backend behind its plugin.                                          *)
(***************************************************************************)
TheEntity == entity[1]
TheModel == heap[entity[1].model]
IsLazy == entity # <<>> /\ TheModel.kind = "LazyLoadableModel"
IsLoaded == IsLazy /\ TheModel.loaded_model # <<>>
IsEmpty == IsLazy /\ TheModel.loaded_model = <<>>

\* What the caller sees of a call, and the plugin.load calls it made
Outcome(op, args, r, fetched) ==
    [op |-> op, args |-> args, kind |-> r.kind, err |-> r.err, arg |-> r.arg,
     val |-> r.val, fetched |-> fetched]

InitialStore == "id1" :> [name |-> "Ayy"]

SaveResults == {Return(id) : id \in Ids} \cup {Raise(x) : x \in SaveErrors}

\* The threads that share the entity, none of them in a call: pc is the
\* statement a thread is at; args are the arguments of its call; data,
\* id and doc are the locals entity_data, create_id and persist_data of its
\* call; out is the outcome of the call it finished; overlapped says
\* whether a call started while another was in progress
Threads == {1, 2}

NoCalls ==
    [pc |-> [t \in Threads |-> "idle"],
     args |-> [t \in Threads |-> <<>>],
     data |-> [t \in Threads |-> <<>>],
     id |-> [t \in Threads |-> <<>>],
     doc |-> [t \in Threads |-> <<>>],
     out |-> [t \in Threads |-> <<>>],
     overlapped |-> FALSE]

Init ==
    /\ entity = <<>>
    /\ heap = <<>>
    /\ store = InitialStore
    /\ saves = <<>>
    /\ loads = <<>>
    /\ transfers = <<>>
    /\ statuses = <<>>
    /\ created = <<>>
    /\ assignment = <<>>
    /\ ret = Outcome("none", <<>>, Return(None), <<>>)
    /\ steps = 0
    /\ writes = 0
    /\ threads = NoCalls

\* cls(model, plugin=P) with the model r a factory made, if it made one
Construct(op, args, cls, r) ==
    /\ ret' = Outcome(op, args, [r EXCEPT !.val = <<>>], <<>>)
    /\ IF r.kind = "return"
       THEN /\ heap' = Append(heap, r.val[1])
            /\ entity' = <<Entity(cls, Len(heap) + 1, "P")>>
       ELSE UNCHANGED <<heap, entity>>
    /\ steps' = steps + 1
    /\ UNCHANGED <<threads, store, saves, loads, transfers, statuses, created,
                   assignment, writes>>

\* cls.from_data(data, data_format=data_format, plugin=P)
FromData(cls, data, data_format) ==
    /\ entity = <<>>
    /\ steps = 0
    /\ Construct("from_data",
                 [cls |-> cls, data |-> data, data_format |-> data_format],
                 cls, Entity_from_data(cls, data, data_format))

\* cls(cls.generate_model(data=data, model_cls=LazyLoadableModel), plugin=P)
FromLazyModel(cls, data) ==
    /\ entity = <<>>
    /\ steps = 0
    /\ Construct("from_lazy_model", [cls |-> cls, data |-> data], cls,
                 generate_model(cls, [data |-> <<data>>,
                                      ld_type |-> Missing,
                                      ld_context |-> Missing,
                                      model_cls |-> "LazyLoadableModel",
                                      validator |-> Missing]))

FromPersistIdEffect(args, r) ==
    /\ ret' = Outcome("from_persist_id", args, r, r.loads)
    /\ entity' = r.entity
    /\ heap' = heap \o r.model
    /\ loads' = loads \o r.loads
    /\ steps' = steps + 1
    /\ UNCHANGED <<threads, store, saves, transfers, statuses, created, assignment,
                   writes>>

\* cls.from_persist_id(persist_id, force_load=force_load, plugin=P)
FromPersistId(cls, persist_id, force_load) ==
    /\ entity = <<>>
    /\ steps = 0
    /\ FromPersistIdEffect(
           [cls |-> cls, persist_id |-> persist_id, force_load |-> force_load],
           Entity_from_persist_id(cls, persist_id, force_load, "P",
                                  Len(heap) + 1, store))

CreateEffect(args, save_result, r) ==
    /\ ret' = Outcome("create", args, r, r.loads)
    /\ entity' = <<[TheEntity EXCEPT !.persist_id = r.persist_id]>>
    /\ heap' = [heap EXCEPT ![TheEntity.model] = r.model]
    /\ loads' = loads \o r.loads
    /\ saves' = saves \o r.saves
    /\ created' = IF r.kind = "return" THEN Append(created, r.val[1])
                  ELSE created
    /\ store' = IF r.saves # <<>> /\ save_result.kind = "return"
                THEN (save_result.val[1] :> r.saves[1].data) @@ store
                ELSE store
    /\ steps' = steps + 1
    /\ UNCHANGED <<threads, transfers, statuses, assignment, writes>>

\* entity.create(user, data_format); the plugin's save either returns an
\* id, keeping the document under it, or fails
Create(user, data_format, save_result) ==
    /\ entity # <<>>
    /\ steps < MaxSteps
    /\ CreateEffect([user |-> user, data_format |-> data_format], save_result,
                    create(TheEntity, TheModel, store, user, data_format,
                           save_result))

\* A call that may load the entity's model and changes nothing else
ModelEffect(op, args, r) ==
    /\ ret' = Outcome(op, args, r, r.loads)
    /\ heap' = [heap EXCEPT ![TheEntity.model] = r.model]
    /\ loads' = loads \o r.loads
    /\ steps' = steps + 1
    /\ UNCHANGED <<threads, entity, store, saves, transfers, statuses, created,
                   assignment, writes>>

\* entity.load()
Load ==
    /\ entity # <<>>
    /\ steps < MaxSteps
    /\ ModelEffect("load", <<>>, Entity_load(TheEntity, TheModel, store))

\* entity.data
Data ==
    /\ entity # <<>>
    /\ steps < MaxSteps
    /\ ModelEffect("data", <<>>, Entity_data(TheEntity, TheModel, store))

StatusEffect(r) ==
    /\ ret' = Outcome("status", <<>>, r, <<>>)
    /\ statuses' = statuses \o r.statuses
    /\ steps' = steps + 1
    /\ UNCHANGED <<threads, entity, heap, store, saves, loads, transfers, created,
                   assignment, writes>>

\* entity.status
Status ==
    /\ entity # <<>>
    /\ steps < MaxSteps
    /\ StatusEffect(Entity_status(TheEntity, store))

\* entity.to_json(), entity.to_jsonld(), entity.to_ipld() through _to_format
Serialize(data_format) ==
    /\ entity # <<>>
    /\ steps < MaxSteps
    /\ ModelEffect("to_format", [data_format |-> data_format],
                   Entity_to_format(TheEntity, TheModel, store, data_format))

TransferEffect(args, r) ==
    /\ ret' = Outcome("transfer", args, r, <<>>)
    /\ transfers' = transfers \o r.transfers
    /\ assignment' = r.assignment
    /\ heap' = heap \o r.model
    /\ steps' = steps + 1
    /\ UNCHANGED <<threads, entity, store, saves, loads, statuses, created, writes>>

\* entity.transfer(rights_assignment_data, from_user=..., to_user=...,
\* rights_assignment_format=...) on a Right or a Copyright
Transfer(rights_assignment_data, from_user, to_user, rights_assignment_format, transfer_result) ==
    /\ entity # <<>>
    /\ TheEntity.cls \in {"Right", "Copyright"}
    /\ steps < MaxSteps
    /\ TransferEffect(
           [rights_assignment_data |-> rights_assignment_data,
            from_user |-> from_user, to_user |-> to_user,
            rights_assignment_format |-> rights_assignment_format],
           Right_transfer(TheEntity, rights_assignment_data, from_user,
                          to_user, rights_assignment_format, Len(heap) + 1,
                          store, transfer_result))

\* entity.model.load(persist_id, plugin=entity.plugin), called directly on
\* the entity's LazyLoadableModel
ModelLoad(persist_id) ==
    /\ IsLazy
    /\ steps < MaxSteps
    /\ ModelEffect("model_load", [persist_id |-> persist_id],
                   LazyLoadableModel_load(
                       TheModel,
                       [persist_id |-> persist_id, plugin |-> TheEntity.plugin],
                       store))

\* entity.persist_id = persist_id, the assignment from_persist_id makes on
\* the entity it has built around an Empty LazyLoadableModel; the attribute
\* can be set while it is None
AssignPersistId(persist_id) ==
    /\ IsEmpty
    /\ steps = 1
    /\ TheEntity.persist_id = None
    /\ entity' = <<[TheEntity EXCEPT !.persist_id = persist_id]>>
    /\ UNCHANGED <<threads, heap, store, saves, loads, transfers, statuses, created,
                   assignment, ret, steps, writes>>

\* Another client of the backend writes the document kept under an id
BackendWrite(persist_id, doc) ==
    /\ writes < MaxWrites
    /\ store' = (persist_id :> doc) @@ store
    /\ store' # store
    /\ writes' = writes + 1
    /\ UNCHANGED <<threads, entity, heap, saves, loads, transfers, statuses, created,
                   assignment, ret, steps>>

Next ==
    \/ \E cls \in Classes, data \in InputData, f \in Formats :
          FromData(cls, data, f)
    \/ \E cls \in Classes, data \in InputData : FromLazyModel(cls, data)
    \/ \E cls \in Classes, id \in Ids, force_load \in BOOLEAN :
          FromPersistId(cls, id, force_load)
    \/ \E user \in Users, f \in Formats, s \in SaveResults : Create(user, f, s)
    \/ Load
    \/ Data
    \/ Status
    \/ \E f \in Formats : Serialize(f)
    \/ \E d \in RightsAssignmentData, f \in TransferFormats,
          t \in TransferResults :
          Transfer(d, "u1", "u2", f, t)
    \/ \E id \in Ids : ModelLoad(id)
    \/ \E id \in Ids : AssignPersistId(id)
    \/ \E doc \in PersistedData : BackendWrite("id1", doc)

Spec == Init /\ [][Next]_vars

(***************************************************************************)
(* Threads sharing one entity.  A call of create or of the model's load    *)
(* is a sequence of steps, one per statement that reads or writes the      *)
(* entity, the model or the backend; steps of different threads            *)
(* interleave, as nothing in create or load holds a lock.                  *)
(***************************************************************************)
Busy(t) == threads.pc[t] \notin {"idle", "done"}

\* the caller's view of a result
Result(r) == [kind |-> r.kind, err |-> r.err, arg |-> r.arg, val |-> r.val]

\* thread t enters a call at statement pc
Entered(t, pc, args) ==
    [threads EXCEPT !.pc[t] = pc,
                    !.args[t] = <<args>>,
                    !.overlapped = @ \/ \E u \in Threads \ {t} : Busy(u)]

\* thread t's call returns or raises r
Finished(t, r) ==
    [threads EXCEPT !.pc[t] = "done", !.out[t] = <<Result(r)>>]

\* PostInitImmutable.__setattr__: an attribute that holds a value cannot be
\* set again
PostInitImmutable_setattr(held) ==
    IF held THEN Raise("AttributeError") ELSE Return(None)

\* a thread calls entity.create(user, data_format)
CallCreate(t, user, data_format) ==
    /\ entity # <<>>
    /\ threads.pc[t] = "idle"
    /\ threads' = Entered(t, "create_check",
                          [user |-> user, data_format |-> data_format])
    /\ UNCHANGED <<entity, heap, store, saves, loads, transfers, statuses,
                   created, assignment, ret, steps, writes>>

\* Mutant of the check in Entity.create: the entity's persist_id is not
\* looked at
create_check_Unguarded(e) ==
    IF e.cls = "RightsAssignment" THEN <<Raise("EntityError")>>
    ELSE <<>>

\* The check Entity.create starts with (RightsAssignment.create raises
\* whatever the state): the exception it raises, if any
create_check(e) ==
    IF e.cls = "RightsAssignment" THEN <<Raise("EntityError")>>
    ELSE IF e.persist_id # None
    THEN <<RaiseWith("EntityPreviouslyCreatedError", e.persist_id)>>
    ELSE <<>>

CreateCheckEffect(t, raised) ==
    threads' = IF raised # <<>> THEN Finished(t, raised[1])
               ELSE [threads EXCEPT !.pc[t] = "create_serialize"]

\* if self.persist_id is not None: raise EntityPreviouslyCreatedError
CreateCheck(t) ==
    /\ threads.pc[t] = "create_check"
    /\ CreateCheckEffect(t, create_check(TheEntity))
    /\ UNCHANGED <<entity, heap, store, saves, loads, transfers, statuses,
                   created, assignment, ret, steps, writes>>

CreateSerializeEffect(t, entity_data) ==
    /\ heap' = [heap EXCEPT ![TheEntity.model] = entity_data.model]
    /\ loads' = loads \o entity_data.loads
    /\ threads' = IF entity_data.kind = "raise" THEN Finished(t, entity_data)
                  ELSE [threads EXCEPT !.pc[t] = "create_save",
                                       !.data[t] = entity_data.val]

\* entity_data = self._to_format(data_format)
CreateSerialize(t) ==
    /\ threads.pc[t] = "create_serialize"
    /\ CreateSerializeEffect(t, Entity_to_format(TheEntity, TheModel, store,
                                                 threads.args[t][1].data_format))
    /\ UNCHANGED <<entity, store, saves, transfers, statuses, created,
                   assignment, ret, steps, writes>>

\* create_id = self.plugin.save(entity_data, user=user); the plugin's save
\* either returns an id, keeping the document under it, or fails
CreateSave(t, save_result) ==
    /\ threads.pc[t] = "create_save"
    /\ saves' = Append(saves, [data |-> threads.data[t][1],
                               user |-> threads.args[t][1].user])
    /\ store' = IF save_result.kind = "return"
                THEN (save_result.val[1] :> threads.data[t][1]) @@ store
                ELSE store
    /\ threads' = IF save_result.kind = "raise" THEN Finished(t, save_result)
                  ELSE [threads EXCEPT !.pc[t] = "create_assign",
                                       !.id[t] = save_result.val]
    /\ UNCHANGED <<entity, heap, loads, transfers, statuses, created,
                   assignment, ret, steps, writes>>

CreateAssignEffect(t, set) ==
    IF set.kind = "raise"
    THEN /\ threads' = Finished(t, set)
         /\ UNCHANGED <<entity, created>>
    ELSE /\ entity' = <<[TheEntity EXCEPT !.persist_id = threads.id[t][1]]>>
         /\ created' = Append(created, threads.id[t][1])
         /\ threads' = Finished(t, Return(threads.id[t][1]))

\* self.persist_id = create_id; return create_id
CreateAssign(t) ==
    /\ threads.pc[t] = "create_assign"
    /\ CreateAssignEffect(t, PostInitImmutable_setattr(TheEntity.persist_id # None))
    /\ UNCHANGED <<heap, store, saves, loads, transfers, statuses, assignment,
                   ret, steps, writes>>

\* a thread calls entity.model.load(persist_id, plugin=entity.plugin) on the
\* entity's LazyLoadableModel
CallLoad(t, persist_id) ==
    /\ IsLazy
    /\ threads.pc[t] = "idle"
    /\ threads' = Entered(t, "load_check", [persist_id |-> persist_id])
    /\ UNCHANGED <<entity, heap, store, saves, loads, transfers, statuses,
                   created, assignment, ret, steps, writes>>

\* if self.loaded_model: return
LoadCheck(t) ==
    /\ threads.pc[t] = "load_check"
    /\ threads' = IF TheModel.loaded_model # <<>> THEN Finished(t, Return(None))
                  ELSE [threads EXCEPT !.pc[t] = "load_fetch"]
    /\ UNCHANGED <<entity, heap, store, saves, loads, transfers, statuses,
                   created, assignment, ret, steps, writes>>

LoadFetchEffect(t, persist_data) ==
    threads' = IF persist_data.kind = "raise" THEN Finished(t, persist_data)
               ELSE [threads EXCEPT !.pc[t] = "load_construct",
                                    !.doc[t] = persist_data.val]

\* persist_data = plugin.load(persist_id)
LoadFetch(t) ==
    /\ threads.pc[t] = "load_fetch"
    /\ loads' = Append(loads, threads.args[t][1].persist_id)
    /\ LoadFetchEffect(t, plugin_load(store, threads.args[t][1].persist_id))
    /\ UNCHANGED <<entity, heap, store, saves, transfers, statuses, created,
                   assignment, ret, steps, writes>>

LoadAssignEffect(t, loaded, set) ==
    IF loaded.kind = "return" /\ set.kind = "raise"
    THEN /\ threads' = Finished(t, set)
         /\ UNCHANGED heap
    ELSE /\ heap' = [heap EXCEPT ![TheEntity.model] = loaded.model]
         /\ threads' = Finished(t, loaded)

\* the sanity check of the loaded type and context, and
\* self.loaded_model = Model(data=loaded_data, ...)
LoadConstruct(t) ==
    /\ threads.pc[t] = "load_construct"
    /\ LoadAssignEffect(t,
                        load_check(TheModel, <<>>,
                                   extract_ld_data(threads.doc[t][1], "jsonld")),
                        PostInitImmutable_setattr(TheModel.loaded_model # <<>>))
    /\ UNCHANGED <<entity, store, saves, loads, transfers, statuses, created,
                   assignment, ret, steps, writes>>

\* An entity is built, then the threads call create and load on it
NextC ==
    \/ \E cls \in Classes, data \in InputData, f \in Formats :
          FromData(cls, data, f)
    \/ \E cls \in Classes, data \in InputData : FromLazyModel(cls, data)
    \/ \E t \in Threads, user \in Users, f \in Formats : CallCreate(t, user, f)
    \/ \E t \in Threads : CreateCheck(t)
    \/ \E t \in Threads : CreateSerialize(t)
    \/ \E t \in Threads, s \in SaveResults : CreateSave(t, s)
    \/ \E t \in Threads : CreateAssign(t)
    \/ \E t \in Threads, id \in Ids : CallLoad(t, id)
    \/ \E t \in Threads : LoadCheck(t)
    \/ \E t \in Threads : LoadFetch(t)
    \/ \E t \in Threads : LoadConstruct(t)

SpecC == Init /\ [][NextC]_vars

(***************************************************************************)
(* Properties.                                                             *)
(***************************************************************************)
\* the step is a call of op
Calls(op) == steps' = steps + 1 /\ ret'.op = op

Persisted == entity # <<>> /\ TheEntity.persist_id # None

\* C1: a create on an Entity on which an earlier create succeeded fails with
\* EntityPreviouslyCreatedError carrying the id the earlier call returned,
\* makes no plugin.save call and leaves persist_id as it was.
C1_SecondCreateFails ==
    [][ (Calls("create") /\ created # <<>>) =>
          /\ ret'.kind = "raise"
          /\ ret'.err = "EntityPreviouslyCreatedError"
          /\ ret'.arg = created[1]
          /\ saves' = saves
          /\ TheEntity.persist_id = created[1]
          /\ TheEntity'.persist_id = TheEntity.persist_id ]_vars

C1_Witness ==
    /\ ret.op = "create"
    /\ ret.err = "EntityPreviouslyCreatedError"
    /\ created # <<>>
    /\ Len(saves) = 1

\* C2: once an Entity exists its model, plugin and class never change, and
\* its persist_id, once it is not None, never changes again.
C2_PersistIdSetOnce ==
    [][ entity # <<>> =>
          /\ entity' # <<>>
          /\ TheEntity'.model = TheEntity.model
          /\ TheEntity'.plugin = TheEntity.plugin
          /\ TheEntity'.cls = TheEntity.cls
          /\ (TheEntity.persist_id # None =>
                TheEntity'.persist_id = TheEntity.persist_id) ]_vars

C2_Witness ==
    /\ Persisted
    /\ steps = MaxSteps
    /\ ret.op \in {"create", "load", "data", "status", "transfer", "to_format"}

\* C3 (as claimed): a create in which plugin.save fails raises
\* EntityCreationError and leaves persist_id None and the model unchanged.
C3_SaveFailureIsEntityCreationError ==
    [][ (Calls("create") /\ Len(saves') = Len(saves) + 1 /\ ret'.kind = "raise") =>
          /\ ret'.err = "EntityCreationError"
          /\ TheEntity'.persist_id = None
          /\ heap' = heap ]_vars

\* the serialisation of the entity in format f
SerializedAs(f) ==
    IF f = "json" THEN Entity_to_json(TheEntity, TheModel, store).val[1]
    ELSE Entity_to_jsonld(TheEntity, TheModel, store).val[1]

\* C4: a create that returns was made on an Entity without persist_id, with
\* format json or jsonld; it makes exactly one plugin.save call, with
\* to_json() resp. to_jsonld() of the entity and the given user, and the id
\* the plugin keeps the document under is both returned and stored as
\* persist_id.
C4_CreateSavesSerialized ==
    [][ (Calls("create") /\ ret'.kind = "return") =>
          /\ TheEntity.persist_id = None
          /\ ret'.args.data_format \in {"json", "jsonld"}
          /\ saves' = Append(saves, [data |-> SerializedAs(ret'.args.data_format),
                                     user |-> ret'.args.user])
          /\ ret'.val = <<TheEntity'.persist_id>>
          /\ TheEntity'.persist_id \in DOMAIN store'
          /\ store'[TheEntity'.persist_id] = saves'[Len(saves')].data ]_vars

C4_Witness ==
    /\ ret.op = "create"
    /\ ret.kind = "return"
    /\ ret.args.data_format = "json"
    /\ ret.args.user = "u2"
    /\ Len(saves) = 1
    /\ Persisted

\* the last call was cls.from_persist_id(id, plugin=P) without force_load
BuiltFromPersistId == ret.op = "from_persist_id" /\ ~ret.args.force_load

\* data access on the entity loads the document of persist_id with a single
\* plugin.load call, and a second access makes no further call
DataLoadsOnce(d, persist_id) ==
    /\ d.kind = "return"
    /\ d.loads = <<persist_id>>
    /\ d.val = <<extract_ld_data(store[persist_id], "jsonld").data>>
    /\ Entity_data(TheEntity, d.model, store).loads = <<>>
    /\ Entity_data(TheEntity, d.model, store).val = d.val

\* C5 (as claimed): after from_persist_id(id, plugin) without force_load, for
\* an id the backend holds, there is an Entity whose data access makes
\* exactly one plugin.load(id) call in total and returns the loaded data.
C5_LazyDataLoadsOnce ==
    (BuiltFromPersistId /\ ret.args.persist_id \in DOMAIN store) =>
        /\ entity # <<>>
        /\ DataLoadsOnce(Entity_data(TheEntity, TheModel, store),
                         ret.args.persist_id)

\* C6 (as claimed): from_persist_id(id, plugin) without force_load returns an
\* Entity with persist_id = id and an Empty LazyLoadableModel, making no
\* plugin.load call; status on it succeeds when the backend holds the id.
C6_FromPersistIdIsLazy ==
    BuiltFromPersistId =>
        /\ ret.kind = "return"
        /\ entity # <<>>
        /\ TheEntity.persist_id = ret.args.persist_id
        /\ IsEmpty
        /\ loads = <<>>
        /\ (ret.args.persist_id \in DOMAIN store =>
              Entity_status(TheEntity, store).kind = "return")

\* C7: LazyLoadableModel.load on a Loaded model returns without a
\* plugin.load call and leaves the model as it is, whatever the backend
\* holds by then; on an Empty model it makes one plugin.load call for the
\* persist_id it is given.
C7_LoadIsIdempotent ==
    [][ Calls("model_load") =>
          IF IsLoaded
          THEN ret'.kind = "return" /\ loads' = loads /\ heap' = heap
          ELSE loads' = Append(loads, ret'.args.persist_id) ]_vars

\* a second load of the same id returned without fetching, on a model loaded
\* by an earlier load whose document the backend has replaced since
C7_Witness ==
    /\ ret.op = "model_load"
    /\ ret.kind = "return"
    /\ ret.fetched = <<>>
    /\ loads = <<ret.args.persist_id>>
    /\ IsLoaded
    /\ writes = 1
    /\ TheModel.loaded_model[1].data
         # extract_ld_data(store[ret.args.persist_id], "jsonld").data

\* C8: create on a RightsAssignment raises EntityError whatever its
\* arguments, makes no plugin.save call and sets no persist_id: a
\* persist_id that is None stays None.
C8_RightsAssignmentCreateFails ==
    [][ (Calls("create") /\ TheEntity.cls = "RightsAssignment") =>
          /\ ret'.kind = "raise"
          /\ ret'.err = "EntityError"
          /\ saves' = saves
          /\ created' = created
          /\ TheEntity'.persist_id = TheEntity.persist_id ]_vars

C8_Witness ==
    /\ ret.op = "create"
    /\ ret.err = "EntityError"
    /\ entity # <<>>
    /\ TheEntity.cls = "RightsAssignment"
    /\ TheEntity.persist_id = None
    /\ saves = <<>>

\* transfer as the base class defines it: EntityNotYetPersistedError and no
\* plugin.transfer call without persist_id; else one plugin.transfer call
\* with persist_id and the users, whose result is returned
TransferDelegates ==
    IF TheEntity.persist_id = None
    THEN /\ ret'.kind = "raise"
         /\ ret'.err = "EntityNotYetPersistedError"
         /\ transfers' = transfers
    ELSE /\ Len(transfers') = Len(transfers) + 1
         /\ SubSeq(transfers', 1, Len(transfers)) = transfers
         /\ transfers'[Len(transfers')].persist_id = TheEntity.persist_id
         /\ transfers'[Len(transfers')].from_user = ret'.args.from_user
         /\ transfers'[Len(transfers')].to_user = ret'.args.to_user
         /\ ret'.kind = "return"
         /\ ret'.val = <<transfers'[Len(transfers')].result>>

\* the payload of a transfer can be serialised: no rights_assignment_data,
\* or a format that is json or jsonld (the default)
PayloadSerializable(args) ==
    \/ args.rights_assignment_data = <<>>
    \/ args.rights_assignment_format \in {Missing, "jsonld", "json"}

\* C9 (as claimed): transfer on a Right or Copyright delegates as the base
\* class defines it whatever the other arguments are.
C9_TransferWhateverArguments ==
    [][ Calls("transfer") => TransferDelegates ]_vars

\* C9 (amended): transfer on a Right or Copyright delegates as the base
\* class defines it when no rights_assignment_data is given or the format is
\* json or jsonld; with rights_assignment_data and format ipld or an unknown
\* format it raises NotImplementedError resp. UnknownFormat, whether or not
\* persist_id is set, and makes no plugin.transfer call.
C9_TransferDelegates ==
    [][ Calls("transfer") =>
          /\ TheEntity.cls \in {"Right", "Copyright"}
          /\ IF PayloadSerializable(ret'.args)
             THEN TransferDelegates
             ELSE /\ ret'.kind = "raise"
                  /\ ret'.err = IF ret'.args.rights_assignment_format = "ipld"
                                THEN "NotImplementedError"
                                ELSE "UnknownFormat"
                  /\ transfers' = transfers ]_vars

C9_Witness ==
    /\ ret.op = "transfer"
    /\ ret.err = "EntityNotYetPersistedError"
    /\ ret.args.rights_assignment_data # <<>>
    /\ ret.args.rights_assignment_format = "json"
    /\ entity # <<>>
    /\ TheEntity.cls = "Copyright"
    /\ TheEntity.persist_id = None
    /\ transfers = <<>>

\* the serialisation in format f of a RightsAssignment built from dict d
AssignmentPayload(d, f) ==
    IF f = "json"
    THEN SetItem(Without(d, {"@type", "@context", "@id"}),
                 "type", "RightsTransferAction")
    ELSE SetItem(SetItem(SetItem(Without(d, {"@type", "@context", "@id"}),
                                 "@context", IF "@context" \in DOMAIN d
                                             THEN d["@context"] ELSE COALAIP),
                         "@type", "RightsTransferAction"),
                 "@id", "")

LoadDelegated ==
    LazyLoadableModel_load(TheModel,
                           [persist_id |-> TheEntity.persist_id,
                            plugin |-> TheEntity.plugin],
                           store)

\* C11 (as claimed): Entity.load returns without a plugin call or a change
\* when the model is not lazily loadable; on a lazily loadable model it
\* raises EntityNotYetPersistedError without a plugin call when persist_id
\* is None, and otherwise does what the model's load does with the
\* entity's persist_id and plugin.
C11_LoadDelegates ==
    [][ Calls("load") =>
          IF ~IsLazy
          THEN /\ ret'.kind = "return"
               /\ loads' = loads
               /\ heap' = heap
               /\ entity' = entity
          ELSE IF TheEntity.persist_id = None
          THEN /\ ret'.kind = "raise"
               /\ ret'.err = "EntityNotYetPersistedError"
               /\ loads' = loads
               /\ heap' = heap
          ELSE /\ ret'.kind = LoadDelegated.kind
               /\ ret'.err = LoadDelegated.err
               /\ loads' = loads \o LoadDelegated.loads
               /\ heap'[TheEntity.model] = LoadDelegated.model ]_vars

\* C12 (as claimed): from_persist_id(id, force_load=True, plugin) returns an
\* Entity with persist_id = id and a Loaded model after exactly one
\* plugin.load(id) call, or raises the load's EntityNotFoundError or
\* ModelDataError.
C12_ForceLoadLoadsOrFails ==
    (ret.op = "from_persist_id" /\ ret.args.force_load) =>
        \/ /\ ret.kind = "return"
           /\ entity # <<>>
           /\ TheEntity.persist_id = ret.args.persist_id
           /\ IsLoaded
           /\ loads = <<ret.args.persist_id>>
        \/ /\ ret.kind = "raise"
           /\ ret.err \in {"EntityNotFoundError", "ModelDataError"}

\* the last call was cls.from_data(data, data_format=f, plugin=P) and it
\* returned an entity
BuiltFromData ==
    ret.op = "from_data" /\ ret.kind = "return" /\ entity # <<>>

\* the ld_type the caller's data supplies in format f, None when it
\* supplies none
SuppliedType(d, f) ==
    IF f = "json" THEN DictGet(d, "type") ELSE DictGet(d, "@type")

\* the ld_type an entity of class cls is to have when the data supplies t
ExpectedType(cls, t) ==
    CASE cls = "Work" -> "CreativeWork"
      [] cls = "Copyright" -> "Copyright"
      [] cls = "RightsAssignment" -> "RightsTransferAction"
      [] cls = "Manifestation" -> IF t = None THEN "CreativeWork" ELSE t
      [] cls = "Right" -> IF t = None THEN "Right" ELSE t

C14_IsManifestationInjected ==
    (BuiltFromData /\ TheEntity.cls = "Manifestation") =>
        /\ "isManifestation" \in DOMAIN TheModel.data
        /\ TheModel.data["isManifestation"] = PyTrue
        /\ (ret.args.data = EmptyDict =>
              TheModel.data = [isManifestation |-> PyTrue])

\* the keys of a raw dict that format f reads as linked-data fields
LdKeys(f) == IF f = "json" THEN {"type"} ELSE {"@type", "@context", "@id"}

\* to_json() is called on the entity that from_data has just returned
ToJsonOfBuilt ==
    /\ BuiltFromData
    /\ ret.args.data_format \in {"json", "jsonld"}
    /\ Calls("to_format")
    /\ ret'.args.data_format = "json"

\* the resolved ld_type of the entity from_data has just returned
ResolvedType ==
    ExpectedType(TheEntity.cls,
                 SuppliedType(ret.args.data, ret.args.data_format))

\* d without the linked-data keys of format f
PlainFields(d, f) == Without(d, LdKeys(f))

\* C15 (as claimed): to_json() on an entity built by from_data(d, f) with f
\* json or jsonld returns exactly d without the linked-data keys of f, plus
\* type = the resolved ld_type.
C15_ToJsonRoundTrip ==
    [][ ToJsonOfBuilt =>
          /\ ret'.kind = "return"
          /\ ret'.val = <<SetItem(PlainFields(ret.args.data,
                                              ret.args.data_format),
                                  "type", ResolvedType)>> ]_vars

\* C15 (amended): to_json() on an entity built by from_data(d, f) with f
\* json or jsonld returns d without the linked-data keys of f, plus type =
\* the resolved ld_type, and for a Manifestation also isManifestation =
\* True when d carries no isManifestation key; the model's context is not
\* added.
C15_ToJsonRoundTripPlusInjected ==
    [][ ToJsonOfBuilt =>
          /\ ret'.kind = "return"
          /\ ret'.val =
               <<SetItem(
                   IF /\ TheEntity.cls = "Manifestation"
                      /\ "isManifestation" \notin DOMAIN ret.args.data
                   THEN SetItem(PlainFields(ret.args.data,
                                            ret.args.data_format),
                                "isManifestation", PyTrue)
                   ELSE PlainFields(ret.args.data, ret.args.data_format),
                   "type", ResolvedType)>> ]_vars

C15_Witness ==
    /\ ret.op = "to_format"
    /\ ret.args.data_format = "json"
    /\ ret.kind = "return"
    /\ steps = 2
    /\ TheModel.kind = "Model"
    /\ TheEntity.cls = "Manifestation"
    /\ ret.val = <<[isManifestation |-> PyTrue, type |-> "CreativeWork"]>>

\* the entity's data as its model holds it, <<>> while the model is Empty
HeldData ==
    IF TheModel.kind = "Model" THEN <<TheModel.data>>
    ELSE IF TheModel.loaded_model # <<>>
    THEN <<TheModel.loaded_model[1].data>>
    ELSE <<>>

CreateUnserializable ==
    /\ Calls("create")
    /\ TheEntity.persist_id = None
    /\ ret'.args.data_format \notin {"json", "jsonld"}

\* the failure of a serialisation in data_format
FormatError(data_format) ==
    IF data_format = "ipld" THEN "NotImplementedError" ELSE "UnknownFormat"

\* C17 (as claimed): create with a format other than json, jsonld and ipld
\* raises UnknownFormat and create with ipld raises NotImplementedError,
\* on every entity without persist_id; no plugin.save call is made and the
\* entity is left as it was.
C17_CreateBadFormat ==
    [][ CreateUnserializable =>
          /\ ret'.kind = "raise"
          /\ ret'.err = FormatError(ret'.args.data_format)
          /\ saves' = saves
          /\ entity' = entity
          /\ heap' = heap ]_vars

\* C17 (amended): on an entity without persist_id that is not a
\* RightsAssignment, create with a format other than json, jsonld and ipld
\* raises UnknownFormat and create with ipld raises NotImplementedError;
\* on a RightsAssignment it raises EntityError whatever the format.  In
\* both cases no plugin.save call is made and the entity, its persist_id
\* and its model are left as they were, so that a later create is not
\* affected.
C17_CreateBadFormatUnlessAssignment ==
    [][ CreateUnserializable =>
          /\ ret'.kind = "raise"
          /\ ret'.err = IF TheEntity.cls = "RightsAssignment"
                        THEN "EntityError"
                        ELSE FormatError(ret'.args.data_format)
          /\ saves' = saves
          /\ created' = created
          /\ store' = store
          /\ entity' = entity
          /\ heap' = heap ]_vars

\* create has failed for an unknown format on a Work that a create with
\* json can still persist
C17_Witness ==
    /\ ret.op = "create"
    /\ ret.err = "UnknownFormat"
    /\ ret.args.data_format = "xml"
    /\ entity # <<>>
    /\ TheEntity.cls = "Work"
    /\ TheEntity.persist_id = None
    /\ saves = <<>>
    /\ Entity_create(TheEntity, TheModel, store, "u1", "json",
                     Return("id1")).persist_id = "id1"

\* C18: status returns None without a plugin call when persist_id is None;
\* otherwise it makes one plugin.get_status call with exactly persist_id
\* and returns what the plugin returns or raises what it raises.  In both
\* cases the entity, its persist_id and its model are left as they are and
\* no other plugin call is made.
C18_Status ==
    [][ Calls("status") =>
          /\ IF TheEntity.persist_id = None
             THEN /\ ret'.kind = "return"
                  /\ ret'.val = <<None>>
                  /\ statuses' = statuses
             ELSE /\ statuses' = Append(statuses, TheEntity.persist_id)
                  /\ ret'.kind = plugin_get_status(store, TheEntity.persist_id).kind
                  /\ ret'.err = plugin_get_status(store, TheEntity.persist_id).err
                  /\ ret'.val = plugin_get_status(store, TheEntity.persist_id).val
          /\ entity' = entity
          /\ heap' = heap
          /\ loads' = loads
          /\ saves' = saves
          /\ transfers' = transfers ]_vars

C18_Witness ==
    /\ ret.op = "status"
    /\ ret.kind = "return"
    /\ ret.val # <<None>>
    /\ Persisted
    /\ statuses = <<TheEntity.persist_id>>

\* a step leaves the attributes of the entity's LazyLoadableModel as they
\* are, and its loaded_model too once it is set
LazyAttrsKept ==
    /\ heap'[TheEntity.model].kind = "LazyLoadableModel"
    /\ heap'[TheEntity.model].ld_type = TheModel.ld_type
    /\ heap'[TheEntity.model].ld_context = TheModel.ld_context
    /\ heap'[TheEntity.model].validator = TheModel.validator
    /\ (TheModel.loaded_model # <<>> =>
          heap'[TheEntity.model].loaded_model = TheModel.loaded_model)

\* the loaded Model carries the LazyLoadableModel's own attributes
LoadedModelAgrees ==
    IsLoaded =>
        /\ TheModel.loaded_model[1].kind = "Model"
        /\ TheModel.loaded_model[1].ld_type = TheModel.ld_type
        /\ TheModel.loaded_model[1].ld_context = TheModel.ld_context
        /\ TheModel.loaded_model[1].validator = TheModel.validator

\* C19: across all calls, the ld_type, ld_context and validator of a
\* LazyLoadableModel never change, its loaded_model never changes once it
\* is set, and the loaded Model always carries the LazyLoadableModel's own
\* ld_type, ld_context and validator.
C19_LazyModelSetOnce ==
    /\ [](entity # <<>> => LoadedModelAgrees)
    /\ [][ (entity # <<>> /\ IsLazy) => LazyAttrsKept ]_vars

\* data was read from a Right whose Empty model an earlier load filled from
\* the backend
C19_Witness ==
    /\ ret.op = "data"
    /\ ret.kind = "return"
    /\ steps = 3
    /\ entity # <<>>
    /\ TheEntity.cls = "Right"
    /\ IsLoaded
    /\ Len(loads) = 1
    /\ TheModel.ld_context = COALAIP

\* load is called on the entity's Empty LazyLoadableModel for an id the
\* backend holds
LoadsHeld ==
    /\ Calls("model_load")
    /\ IsEmpty
    /\ ret'.args.persist_id \in DOMAIN store

\* the linked-data fields of the document load fetches
Fetched == extract_ld_data(store[ret'.args.persist_id], "jsonld")

\* load raises ModelDataError and leaves the model Empty
LoadRejects ==
    /\ ret'.kind = "raise"
    /\ ret'.err = "ModelDataError"
    /\ heap' = heap

\* load goes on to construct the Model from the fetched data, which fails
\* only if the validator rejects the data
LoadConstructs ==
    IF Accepts(TheModel.validator, Fetched.data)
    THEN /\ ret'.kind = "return"
         /\ heap'[TheEntity.model].loaded_model # <<>>
         /\ heap'[TheEntity.model].loaded_model[1].data = Fetched.data
    ELSE LoadRejects

\* C20 (as claimed): load raises ModelDataError when the fetched type is
\* present and differs from the model's ld_type or the fetched context is
\* present and differs from the model's ld_context, and otherwise goes on
\* to construct the Model.
C20_LoadChecksTypeAndContext ==
    [][ LoadsHeld =>
          IF \/ Fetched.ld_type # None /\ Fetched.ld_type # TheModel.ld_type
             \/ /\ Fetched.ld_context # None
                /\ Fetched.ld_context # TheModel.ld_context
          THEN LoadRejects
          ELSE LoadConstructs ]_vars

\* the outcome r of a call is one of the failures of a load
IsLoadFailure(r) ==
    r.kind = "raise" /\ r.err \in {"EntityNotFoundError", "ModelDataError"}

\* a load that fails leaves the model Empty and the entity as it is
FailedLoadKeepsEmpty ==
    (Calls("model_load") /\ IsLoadFailure(ret')) =>
        /\ IsEmpty
        /\ heap' = heap
        /\ entity' = entity

\* a load that follows a failed load fetches from the plugin again
LoadAfterFailedLoadFetches ==
    (Calls("model_load") /\ ret.op = "model_load" /\ IsLoadFailure(ret)) =>
        loads' = Append(loads, ret'.args.persist_id)

\* a data access that follows a failed load, on an entity with a persist_id,
\* fetches the document of persist_id from the plugin again
DataAfterFailedLoadFetches ==
    (/\ Calls("data")
     /\ ret.op = "model_load"
     /\ IsLoadFailure(ret)
     /\ TheEntity.persist_id # None) =>
        loads' = Append(loads, TheEntity.persist_id)

\* C21 (as claimed): a load that fails with EntityNotFoundError or
\* ModelDataError leaves the LazyLoadableModel Empty and the entity's
\* persist_id as it is, and a later load or data access fetches from the
\* plugin again.
C21_FailedLoadLeavesEmpty ==
    [][ /\ FailedLoadKeepsEmpty
        /\ LoadAfterFailedLoadFetches
        /\ DataAfterFailedLoadFetches ]_vars

\* C21, the part about the load itself and a later load
C21_FailedLoadThenLoad ==
    [][ FailedLoadKeepsEmpty /\ LoadAfterFailedLoadFetches ]_vars

\* C22 (as claimed): entity.data either returns the data the model holds
\* after the call, having loaded an Empty LazyLoadableModel first, or
\* raises EntityNotYetPersistedError, EntityNotFoundError or
\* ModelDataError, and never ModelNotYetLoadedError; data read directly
\* from an Empty LazyLoadableModel raises ModelNotYetLoadedError.
C22_DataNeverNotYetLoaded ==
    [][ /\ Calls("data") =>
              \/ /\ ret'.kind = "return"
                 /\ ret'.val = model_data(heap'[TheEntity.model]).val
              \/ /\ ret'.kind = "raise"
                 /\ ret'.err \in {"EntityNotYetPersistedError",
                                  "EntityNotFoundError", "ModelDataError"}
        /\ IsEmpty =>
              LazyLoadableModel_data(TheModel).err = "ModelNotYetLoadedError"
      ]_vars

\* C22, the part the code keeps: entity.data never raises
\* ModelNotYetLoadedError, and raises EntityNotYetPersistedError on an Empty
\* model without persist_id
C22_NotYetLoadedIsCaught ==
    [][ Calls("data") =>
          /\ ret'.err # "ModelNotYetLoadedError"
          /\ (IsEmpty /\ TheEntity.persist_id = None =>
                ret'.err = "EntityNotYetPersistedError")
          /\ (~IsEmpty => ret'.kind = "return") ]_vars

\* the entity was built around a LazyLoadableModel constructed with data
BuiltFromLazyModel ==
    ret.op = "from_lazy_model" /\ ret.kind = "return" /\ entity # <<>>

\* C23 (as claimed): a LazyLoadableModel constructed with data its validator
\* accepts, the empty dict included, is Loaded from construction: its data
\* is readable and load on it makes no plugin call; constructed without
\* data it is Empty.
C23_LazyModelPrePopulated ==
    /\ BuiltFromLazyModel =>
          /\ IsLoaded
          /\ LazyLoadableModel_data(TheModel).kind = "return"
          /\ LazyLoadableModel_load(TheModel,
                                    [persist_id |-> "id1", plugin |-> "P"],
                                    store).loads = <<>>
    /\ LazyLoadableModel("CreativeWork", Missing, Missing,
                         <<>>).val[1].loaded_model = <<>>

\* C23, without the empty dict: a LazyLoadableModel constructed with
\* non-empty data is Loaded with that data, and one constructed with the
\* empty dict or without data is Empty.
C23_NonEmptyDataPrePopulates ==
    /\ BuiltFromLazyModel =>
          IF TheModel.loaded_model # <<>>
          THEN /\ TheModel.loaded_model[1].data # EmptyDict
               /\ LazyLoadableModel_data(TheModel).kind = "return"
          ELSE ret.args.data = EmptyDict
    /\ LazyLoadableModel("CreativeWork", Missing, Missing,
                         <<>>).val[1].loaded_model = <<>>

\* plugin.save returned an id to every thread: two create calls on the one
\* entity each got a backend record
TwoSavesReturned ==
    /\ \A t \in Threads : threads.id[t] # <<>>
    /\ Len(saves) = Cardinality(Threads)

\* C24 as stated: with no mutual-exclusion guard interleaved create calls can
\* both call plugin.save and interleaved load calls can both fetch, and when
\* the calls are not interleaved plugin.save and plugin.load are each called
\* at most once per Entity.
C24_AtMostOncePerEntity ==
    ~threads.overlapped => Len(saves) <= 1 /\ Len(loads) <= 1

\* C24, amended: plugin.save returns an id to two create calls on one Entity
\* only when the calls are interleaved; when the calls are not interleaved,
\* no step calls plugin.save once the Entity has a persist_id and no step
\* calls plugin.load once the model is Loaded (a call that failed can be
\* repeated, and calls the plugin again).
C24_AtMostOnceAfterSuccess ==
    /\ [](TwoSavesReturned => threads.overlapped)
    /\ [][ ~threads'.overlapped =>
             /\ (Persisted => saves' = saves)
             /\ (IsLoaded => loads' = loads) ]_vars

\* two interleaved create calls both passed the check and both saved: the
\* backend keeps two records for the one Entity
C24_Witness ==
    /\ threads.overlapped
    /\ \A t \in Threads : threads.pc[t] = "done"
    /\ TwoSavesReturned
    /\ threads.id[1] # threads.id[2]
    /\ \A t \in Threads : store[threads.id[t][1]] = threads.data[t][1]

\* two interleaved load calls on the one Empty model both fetched from the
\* plugin
C24_BothLoadsFetch ==
    /\ threads.overlapped
    /\ \A t \in Threads : threads.doc[t] # <<>> /\ threads.pc[t] = "done"
    /\ Len(loads) = 2
    /\ IsLoaded

\* calls that are not interleaved: the first create returned an id and the
\* second failed without a plugin.save
C24_SequentialCreates ==
    /\ ~threads.overlapped
    /\ \A t \in Threads : threads.pc[t] = "done"
    /\ \E t \in Threads : threads.out[t][1].err = "EntityPreviouslyCreatedError"
    /\ Len(saves) = 1

\* the keys serialization adds to its output
SerializationKeys == {"type", "@type", "@context", "@id"}

\* C25: to_json, to_jsonld, to_ipld and create leave the Entity's model as it
\* was: the data it holds is the same mapping, with no key added by
\* serialization, and ld_type and ld_context are unchanged; the output is a
\* copy, so a to_jsonld call that follows a to_jsonld call returns (or
\* raises) the same.
C25_SerializingKeepsEntity ==
    [][ Calls("to_format") \/ Calls("create") =>
          /\ HeldData' = HeldData
          /\ (HeldData # <<>> =>
                (DOMAIN HeldData'[1] \cap SerializationKeys)
                    \subseteq DOMAIN HeldData[1])
          /\ TheModel'.ld_type = TheModel.ld_type
          /\ TheModel'.ld_context = TheModel.ld_context
          /\ (/\ ret.op = "to_format"
              /\ ret.args.data_format = "jsonld"
              /\ ret'.op = "to_format"
              /\ ret'.args.data_format = "jsonld"
              => /\ ret'.kind = ret.kind
                 /\ ret'.err = ret.err
                 /\ ret'.val = ret.val) ]_vars

\* a create and a to_jsonld that both returned on an entity whose data has
\* none of the keys serialization adds, while the output has them
C25_Witness ==
    /\ steps = 3
    /\ Persisted
    /\ created # <<>>
    /\ ret.op = "to_format"
    /\ ret.args.data_format = "jsonld"
    /\ ret.kind = "return"
    /\ HeldData # <<>>
    /\ DOMAIN HeldData[1] \cap SerializationKeys = {}
    /\ DOMAIN HeldData[1] # {}
    /\ SerializationKeys \ {"type"} \subseteq DOMAIN ret.val[1]
    /\ saves[1].data = ret.val[1]

====
